---- MODULE Spec2Model ----
(***************************************************************************)
(* Model of Oc2.py: the NSE option-chain analyser.                         *)
(*                                                                         *)
(* Python floats are modelled as exact rationals [n |-> _, d |-> _] in     *)
(* lowest terms with d > 0; the float NaN (0.0/0.0) is [n |-> 0, d |-> 0]. *)
(* Python's None / pandas' NaN cell is the empty sequence Null, a present  *)
(* value v is <<v>>.                                                       *)
(***************************************************************************)
EXTENDS Integers, Sequences, FiniteSets, TLC

VARIABLES
    symbol,            \* sidebar text input after .strip().upper()
    underlying_price,  \* sidebar number input (0 means "fetch from NSE")
    strike_interval,   \* sidebar number input
    session_state,     \* st.session_state: the five stored result fields
    pc,                \* where the script run is: "idle", "cookie", "data"
    attempt_number,    \* tenacity attempt number of get_option_chain
    cookie_attempt,    \* tenacity attempt number of set_cookie
    fut,               \* outcome of the last finished get_option_chain attempt
    snapshot,          \* the chain document the endpoint serves (SpecProc)
    outcome,           \* how the last process_option_chain call ended
    display,           \* what the last script run rendered
    fetched_symbol,    \* history: symbol argument of the call that filled session_state
    last_ok            \* history: the last tuple process_option_chain returned

vars == << symbol, underlying_price, strike_interval, session_state, pc,
           attempt_number, cookie_attempt, fut, snapshot, outcome,
           display, fetched_symbol, last_ok >>

-----------------------------------------------------------------------------
(* Bounds of the model *)

MaxRecords == 3
AppMaxRecords == 2

-----------------------------------------------------------------------------
(* None / NaN cells *)

Null == << >>

Some(v) == << v >>

(* Exact arithmetic standing for float64 *)

Abs(i) == IF i < 0 THEN -i ELSE i

RECURSIVE GCD(_, _)
GCD(a, b) == IF b = 0 THEN a ELSE GCD(b, a % b)

Sign(i) == IF i < 0 THEN -1 ELSE IF i = 0 THEN 0 ELSE 1

\* n/d as a float value: lowest terms; x/0 is inf or -inf, 0/0 is NaN
Rat(n, d) ==
    IF d = 0 THEN [n |-> Sign(n), d |-> 0]
    ELSE LET g == GCD(Abs(n), Abs(d))
         IN  [n |-> (Sign(d) * n) \div g, d |-> Abs(d) \div g]

FromInt(i) == [n |-> i, d |-> 1]

NaN == [n |-> 0, d |-> 0]

IsNaN(r) == r.d = 0 /\ r.n = 0

RAdd(a, b) == Rat(a.n * b.d + b.n * a.d, a.d * b.d)

RSub(a, b) == Rat(a.n * b.d - b.n * a.d, a.d * b.d)

RMul(a, b) == Rat(a.n * b.n, a.d * b.d)

RDiv(a, b) == Rat(a.n * b.d, a.d * b.n)

RAbs(a) == [n |-> Abs(a.n), d |-> a.d]

RLe(a, b) == a.n * b.d <= b.n * a.d

RLt(a, b) == a.n * b.d < b.n * a.d

\* np.ceil
RCeil(a) == -((-a.n) \div a.d)

\* int(): truncation toward zero
RInt(a) == IF a.n >= 0 THEN a.n \div a.d ELSE -((-a.n) \div a.d)

RECURSIVE RSum(_)
RSum(s) == IF s = << >> THEN FromInt(0) ELSE RAdd(Head(s), RSum(Tail(s)))

-----------------------------------------------------------------------------
(* round_nearest_strike and calculate_weighted_avg_price *)

round_nearest_strike(x, num) ==
    RInt(RMul(FromInt(RCeil(RDiv(x, num))), num))

\* df['distance'], df['weight'], df['weighted_price']: the columns the call
\* adds to the frame it is given
distance_col(row, atm_strike) == RAbs(RSub(row.strikePrice, FromInt(atm_strike)))

\* the weight with the distance left in price units
weight_col_no_interval(row, atm_strike, interval) ==
    RDiv(FromInt(1), RAdd(FromInt(1), distance_col(row, atm_strike)))

weight_col(row, atm_strike, interval) ==
    RDiv(FromInt(1), RAdd(FromInt(1), RDiv(distance_col(row, atm_strike), interval)))

with_weights(df, atm_strike, interval) ==
    [i \in 1..Len(df) |->
        [strikePrice    |-> df[i].strikePrice,
         lastPrice      |-> df[i].lastPrice,
         distance       |-> distance_col(df[i], atm_strike),
         weight         |-> weight_col(df[i], atm_strike, interval),
         weighted_price |-> RMul(df[i].lastPrice, weight_col(df[i], atm_strike, interval))]]

calculate_weighted_avg_price(df, atm_strike, interval) ==
    LET w == with_weights(df, atm_strike, interval)
    IN  RDiv(RSum([i \in 1..Len(w) |-> w[i].weighted_price]),
             RSum([i \in 1..Len(w) |-> w[i].weight]))

-----------------------------------------------------------------------------
(* The part of process_option_chain that runs once get_option_chain has     *)
(* returned the snapshot `data`.  A snapshot record carries strikePrice,    *)
(* expiryDate and, optionally, the CE and PE sub-records; of a sub-record's *)
(* four pass-through fields only lastPrice is read by the program, and it   *)
(* is the one kept here.                                                    *)

\* the columns pd.DataFrame(filtered_data) gets: a key some record carries
has_column(filtered_data, side) ==
    \E i \in 1..Len(filtered_data) : filtered_data[i][side] # Null

\* the iterrows loop: 'CE' in row asks for the column, so a row whose cell is
\* NaN is subscripted and raises TypeError
loop_raises(filtered_data) ==
    \E i \in 1..Len(filtered_data) : \E side \in {"CE", "PE"} :
        has_column(filtered_data, side) /\ filtered_data[i][side] = Null

side_data(filtered_data, side) ==
    IF has_column(filtered_data, side)
    THEN [i \in 1..Len(filtered_data) |->
            [strikePrice |-> filtered_data[i].strikePrice,
             lastPrice   |-> filtered_data[i][side][1].lastPrice]]
    ELSE << >>

RECURSIVE select_expiry(_, _)
select_expiry(data, expiry_date) ==
    IF data = << >> THEN << >>
    ELSE IF Head(data).expiryDate = expiry_date
         THEN << Head(data) >> \o select_expiry(Tail(data), expiry_date)
         ELSE select_expiry(Tail(data), expiry_date)

\* the window with its upper bound excluded
in_window_strict(row, atm_strike, strike_range) ==
    /\ RLe(RSub(FromInt(atm_strike), strike_range), row.strikePrice)
    /\ RLt(row.strikePrice, RAdd(FromInt(atm_strike), strike_range))

in_window(row, atm_strike, strike_range) ==
    /\ RLe(RSub(FromInt(atm_strike), strike_range), row.strikePrice)
    /\ RLe(row.strikePrice, RAdd(FromInt(atm_strike), strike_range))

RECURSIVE window_filter(_, _, _)
window_filter(df, atm_strike, strike_range) ==
    IF df = << >> THEN << >>
    ELSE IF in_window(Head(df), atm_strike, strike_range)
         THEN << Head(df) >> \o window_filter(Tail(df), atm_strike, strike_range)
         ELSE window_filter(Tail(df), atm_strike, strike_range)

RECURSIVE insert_sorted(_, _)
insert_sorted(row, sorted) ==
    IF sorted = << >> THEN << row >>
    ELSE IF RLt(row.strikePrice, Head(sorted).strikePrice)
         THEN << row >> \o sorted
         ELSE << Head(sorted) >> \o insert_sorted(row, Tail(sorted))

\* DataFrame.sort_values('strikePrice'); rows of equal strike keep their order
RECURSIVE sort_values(_)
sort_values(df) ==
    IF df = << >> THEN << >>
    ELSE insert_sorted(df[Len(df)], sort_values(SubSeq(df, 1, Len(df) - 1)))

\* DataFrame.merge(on='strikePrice', suffixes=('_CE','_PE'), how='outer')
strike_keys(df) == {df[i].strikePrice : i \in 1..Len(df)}

RECURSIVE sorted_keys(_)
sorted_keys(keys) ==
    IF keys = {} THEN << >>
    ELSE LET k == CHOOSE x \in keys : \A y \in keys : RLe(x, y)
         IN  << k >> \o sorted_keys(keys \ {k})

RECURSIVE rows_with_key(_, _)
rows_with_key(df, k) ==
    IF df = << >> THEN << >>
    ELSE IF Head(df).strikePrice = k
         THEN << Some(Head(df)) >> \o rows_with_key(Tail(df), k)
         ELSE rows_with_key(Tail(df), k)

cell(row, col) == IF row = Null THEN Null ELSE Some(row[1][col])

merged_row(k, ce, pe) ==
    [strikePrice       |-> k,
     lastPrice_CE      |-> cell(ce, "lastPrice"),
     distance_CE       |-> cell(ce, "distance"),
     weight_CE         |-> cell(ce, "weight"),
     weighted_price_CE |-> cell(ce, "weighted_price"),
     lastPrice_PE      |-> cell(pe, "lastPrice"),
     distance_PE       |-> cell(pe, "distance"),
     weight_PE         |-> cell(pe, "weight"),
     weighted_price_PE |-> cell(pe, "weighted_price")]

\* the rows of one key: every pairing of a left row with a right row, or the
\* rows of the only side that has the key, the other side's cells null
key_rows(k, left, right) ==
    LET l == IF left = << >> THEN << Null >> ELSE left
        r == IF right = << >> THEN << Null >> ELSE right
    IN  [i \in 1..(Len(l) * Len(r)) |->
            merged_row(k, l[((i - 1) \div Len(r)) + 1], r[((i - 1) % Len(r)) + 1])]

RECURSIVE merge_keys(_, _, _)
merge_keys(keys, left, right) ==
    IF keys = << >> THEN << >>
    ELSE key_rows(Head(keys), rows_with_key(left, Head(keys)), rows_with_key(right, Head(keys)))
         \o merge_keys(Tail(keys), left, right)

merge_outer(left, right) ==
    merge_keys(sorted_keys(strike_keys(left) \cup strike_keys(right)), left, right)

Returned(value, frames) ==
    [kind |-> "returned", message |-> "", cause |-> "", value |-> Some(value), frames |-> Some(frames)]

Raised(message, cause) ==
    [kind |-> "raised", message |-> message, cause |-> cause, value |-> Null, frames |-> Null]

\* lines 111-114: the two except clauses
process_except(exception) ==
    IF exception = "HTTPError"
    THEN Raised("Failed to fetch data", exception)
    ELSE Raised("Processing error", exception)

\* lines 60-110
process_option_chain(data, expiry_date_arg, underlying_price_arg, interval) ==
    LET price == IF underlying_price_arg = Null
                 THEN data.records.underlyingValue
                 ELSE underlying_price_arg[1]
        expiry_dates == data.records.expiryDates
    IN
    IF expiry_date_arg = Null /\ expiry_dates = << >> THEN process_except("IndexError")
    ELSE
    LET expiry_date   == IF expiry_date_arg = Null THEN expiry_dates[1] ELSE expiry_date_arg[1]
        filtered_data == select_expiry(data.records.data, expiry_date)
    IN
    IF loop_raises(filtered_data) THEN process_except("TypeError")
    ELSE
    LET ce_data      == side_data(filtered_data, "CE")
        pe_data      == side_data(filtered_data, "PE")
        atm_strike   == round_nearest_strike(price, interval)
        strike_range == RMul(FromInt(10), interval)
    IN
    IF ce_data = << >> \/ pe_data = << >> THEN process_except("KeyError")
    ELSE
    LET ce_sorted   == sort_values(window_filter(ce_data, atm_strike, strike_range))
        pe_sorted   == sort_values(window_filter(pe_data, atm_strike, strike_range))
        ce_filtered == with_weights(ce_sorted, atm_strike, interval)
        pe_filtered == with_weights(pe_sorted, atm_strike, interval)
    IN
    Returned([option_chain     |-> merge_outer(ce_filtered, pe_filtered),
              atm_strike       |-> atm_strike,
              underlying_price |-> price,
              ce_weighted_avg  |-> calculate_weighted_avg_price(ce_sorted, atm_strike, interval),
              pe_weighted_avg  |-> calculate_weighted_avg_price(pe_sorted, atm_strike, interval)],
             [expiry_date |-> expiry_date,
              ce_data     |-> ce_data,
              pe_data     |-> pe_data,
              ce_filtered |-> ce_filtered,
              pe_filtered |-> pe_filtered])

-----------------------------------------------------------------------------
(* Inputs: what the sidebar can hold and what the NSE endpoint can answer *)

RawSymbols == {"NIFTY", " nifty ", "BANKNIFTY"}

\* str.strip().upper()
strip_upper(raw) ==
    CASE raw = "NIFTY"     -> "NIFTY"
      [] raw = " nifty "   -> "NIFTY"
      [] raw = "BANKNIFTY" -> "BANKNIFTY"

\* str.lower()
lower(sym) ==
    CASE sym = "NIFTY"     -> "nifty"
      [] sym = "BANKNIFTY" -> "banknifty"

PriceInputs == {FromInt(0), FromInt(3), Rat(17, 4), FromInt(23)}

AppPriceInputs == {FromInt(0), FromInt(3)}

IntervalInputs == {FromInt(1), Rat(3, 2)}

UnderlyingValues == {FromInt(13)}

ExpiryLists == {<< "E1", "E2" >>}

StrikeVals == {FromInt(13), FromInt(14)}

SubRecord(p) == Some([lastPrice |-> p])

CESubRecords == {Null, SubRecord(FromInt(1)), SubRecord(FromInt(3))}

PESubRecords == {Null, SubRecord(FromInt(2))}

NearRecords ==
    {[strikePrice |-> k, expiryDate |-> "E1", CE |-> c, PE |-> p] :
        k \in StrikeVals, c \in CESubRecords, p \in PESubRecords}

FarRecords ==
    {[strikePrice |-> FromInt(13), expiryDate |-> "E2",
      CE |-> SubRecord(FromInt(3)), PE |-> SubRecord(FromInt(2))]}

Records == NearRecords \cup FarRecords

AppRecords ==
    {r \in NearRecords :
        /\ r.CE = SubRecord(FromInt(1))
        /\ r.strikePrice = FromInt(13)}

SeqsUpTo(S, n) == UNION {[1..k -> S] : k \in 0..n}

SnapshotsOver(recs, n) ==
    {[records |-> [underlyingValue |-> u, expiryDates |-> e, data |-> d]] :
        u \in UnderlyingValues, e \in ExpiryLists, d \in SeqsUpTo(recs, n)}

Snapshots == SnapshotsOver(Records, MaxRecords)

AppSnapshots == SnapshotsOver(AppRecords, AppMaxRecords)

NoSnapshot == [records |-> [underlyingValue |-> FromInt(0), expiryDates |-> << >>, data |-> << >>]]

-----------------------------------------------------------------------------
(* The retry policies of set_cookie and get_option_chain (tenacity) *)

stop_after_attempt_set_cookie == 3

stop_after_attempt_get_option_chain == 5

\* a policy that retries whatever was raised
retry_on_any_exception(exception) == TRUE

retry_if_exception_type(exception) == exception = "HTTPError"

RetryError(exception) == "RetryError[" \o exception \o "]"

\* what tenacity does with an attempt that raised `exception`
tenacity_next(exception, attempt, stop) ==
    IF ~retry_if_exception_type(exception) THEN "reraise"
    ELSE IF attempt >= stop THEN "RetryError"
    ELSE "retry"

-----------------------------------------------------------------------------
(* The Streamlit script *)

NoResults ==
    [option_chain_df |-> Null, atm_strike |-> Null, underlying_price |-> Null,
     ce_weighted_avg |-> Null, pe_weighted_avg |-> Null]

\* lines 145-149
store_results(state, value) ==
    [option_chain_df  |-> Some(value.option_chain),
     atm_strike       |-> Some(value.atm_strike),
     underlying_price |-> Some(value.underlying_price),
     ce_weighted_avg  |-> Some(value.ce_weighted_avg),
     pe_weighted_avg  |-> Some(value.pe_weighted_avg)]

\* a handler that clears a stored field when the call fails
fetch_handler_partial(state, res) ==
    IF res.kind = "returned" THEN store_results(state, res.value[1])
    ELSE [state EXCEPT !.ce_weighted_avg = Null]

\* lines 135-154: what the click handler does with the call's outcome
fetch_handler(state, res) ==
    IF res.kind = "returned" THEN store_results(state, res.value[1]) ELSE state

display_columns(chain) ==
    [i \in 1..Len(chain) |->
        [strikePrice  |-> chain[i].strikePrice,
         lastPrice_CE |-> chain[i].lastPrice_CE,
         lastPrice_PE |-> chain[i].lastPrice_PE]]

\* lines 157-177
display_block(sym, state, notice) ==
    IF state.option_chain_df # Null
    THEN [shown      |-> TRUE,
          notice     |-> notice,
          symbol     |-> sym,
          display_df |-> display_columns(state.option_chain_df[1]),
          csv        |-> state.option_chain_df[1],
          file_name  |-> lower(sym) \o "_option_chain.csv"]
    ELSE [shown |-> FALSE, notice |-> notice, symbol |-> "", display_df |-> << >>,
          csv |-> << >>, file_name |-> ""]

\* line 138
price_argument == IF underlying_price = FromInt(0) THEN Null ELSE Some(underlying_price)

NoOutcome == [kind |-> "none", message |-> "", cause |-> "", value |-> Null, frames |-> Null]

Init ==
    /\ symbol = "NIFTY"
    /\ underlying_price = FromInt(0)
    /\ strike_interval = FromInt(1)
    /\ session_state = NoResults
    /\ pc = "idle"
    /\ attempt_number = 0
    /\ cookie_attempt = 0
    /\ fut = "none"
    /\ snapshot = NoSnapshot
    /\ outcome = NoOutcome
    /\ display = display_block("NIFTY", NoResults, "")
    /\ fetched_symbol = ""
    /\ last_ok = Null

\* a script run with fetch_data = False: no call is made, the display block runs
Rerun(sym) ==
    /\ display' = display_block(sym, session_state, "")
    /\ outcome' = NoOutcome
    /\ UNCHANGED << session_state, pc, attempt_number, cookie_attempt, fut,
                    snapshot, fetched_symbol, last_ok >>

EditSymbol ==
    /\ pc = "idle"
    /\ \E raw \in RawSymbols :
        /\ symbol' = strip_upper(raw)
        /\ symbol' # symbol
        /\ Rerun(strip_upper(raw))
    /\ UNCHANGED << underlying_price, strike_interval >>

EditUnderlyingPrice ==
    /\ pc = "idle"
    /\ \E v \in AppPriceInputs : underlying_price' = v /\ v # underlying_price
    /\ Rerun(symbol)
    /\ UNCHANGED << symbol, strike_interval >>

EditStrikeInterval ==
    /\ pc = "idle"
    /\ \E v \in IntervalInputs : strike_interval' = v /\ v # strike_interval
    /\ Rerun(symbol)
    /\ UNCHANGED << symbol, underlying_price >>

\* the button: a new script run shows the spinner and enters
\* process_option_chain -> get_option_chain -> set_cookie
ClickFetch ==
    /\ pc = "idle"
    /\ pc' = "cookie"
    /\ attempt_number' = 1
    /\ cookie_attempt' = 1
    /\ fut' = "none"
    /\ outcome' = NoOutcome
    /\ display' = display_block(symbol, NoResults, "Fetching option chain data...")
    /\ UNCHANGED << symbol, underlying_price, strike_interval, session_state, snapshot,
                    fetched_symbol, last_ok >>

\* process_option_chain ends with `res` (the retry state of the call is gone);
\* the handler and the display block run
FinishRun(res) ==
    /\ outcome' = res
    /\ session_state' = fetch_handler(session_state, res)
    /\ display' = display_block(symbol, fetch_handler(session_state, res),
                                IF res.kind = "returned" THEN "Data fetched successfully"
                                                         ELSE res.message)
    /\ fetched_symbol' = IF res.kind = "returned" THEN symbol ELSE fetched_symbol
    /\ last_ok' = IF res.kind = "returned" THEN res.value ELSE last_ok
    /\ pc' = "idle"
    /\ attempt_number' = 0
    /\ cookie_attempt' = 0
    /\ fut' = "none"
    /\ UNCHANGED << symbol, underlying_price, strike_interval, snapshot >>

\* an attempt of get_option_chain raised `exception`
AttemptFailed(exception) ==
    LET next == tenacity_next(exception, attempt_number, stop_after_attempt_get_option_chain)
    IN  IF next = "retry"
        THEN /\ attempt_number' = attempt_number + 1
             /\ cookie_attempt' = 1
             /\ pc' = "cookie"
             /\ fut' = exception
             /\ UNCHANGED << symbol, underlying_price, strike_interval, session_state,
                             snapshot, outcome, display, fetched_symbol, last_ok >>
        ELSE FinishRun(process_except(IF next = "RetryError"
                                      THEN RetryError(exception) ELSE exception))

SetCookieOk ==
    /\ pc = "cookie"
    /\ pc' = "data"
    /\ UNCHANGED << symbol, underlying_price, strike_interval, session_state,
                    attempt_number, cookie_attempt, fut, snapshot, outcome, display,
                    fetched_symbol, last_ok >>

\* an attempt of set_cookie raised `exception`
SetCookieFailed(exception) ==
    /\ pc = "cookie"
    /\ LET next == tenacity_next(exception, cookie_attempt, stop_after_attempt_set_cookie)
       IN  IF next = "retry"
           THEN /\ cookie_attempt' = cookie_attempt + 1
                   /\ UNCHANGED << symbol, underlying_price, strike_interval, session_state, pc,
                                attempt_number, fut, snapshot, outcome, display,
                                fetched_symbol, last_ok >>
           ELSE AttemptFailed(IF next = "RetryError" THEN RetryError(exception) ELSE exception)

\* raise_for_status on a non-2xx answer
SetCookieHTTPError == SetCookieFailed("HTTPError")

\* timeout=5 expired, or the connection failed
SetCookieTimeout == SetCookieFailed("Timeout")

DataReceived(data) ==
    /\ pc = "data"
    /\ FinishRun(process_option_chain(data, Null, price_argument, strike_interval))

DataOk == \E data \in AppSnapshots : DataReceived(data)

DataFailed(exception) ==
    /\ pc = "data"
    /\ AttemptFailed(exception)

DataHTTPError == DataFailed("HTTPError")

DataTimeout == DataFailed("Timeout")

Next ==
    \/ EditSymbol
    \/ EditUnderlyingPrice
    \/ EditStrikeInterval
    \/ ClickFetch
    \/ SetCookieOk
    \/ SetCookieHTTPError
    \/ SetCookieTimeout
    \/ DataOk
    \/ DataHTTPError
    \/ DataTimeout

Spec == Init /\ [][Next]_vars

\* every request ends: it is answered or its timeout=5 expires
FairSpec == Spec /\ WF_vars(SetCookieOk \/ SetCookieHTTPError \/ SetCookieTimeout)
                 /\ WF_vars(DataOk \/ DataHTTPError \/ DataTimeout)

-----------------------------------------------------------------------------
(* process_option_chain on every snapshot: a fetch whose data request is in *)
(* flight, answered by any snapshot of Snapshots                            *)

InitProc ==
    /\ symbol = "NIFTY"
    /\ underlying_price \in PriceInputs
    /\ strike_interval \in IntervalInputs
    /\ session_state = NoResults
    /\ pc = "data"
    /\ attempt_number = 1
    /\ cookie_attempt = 1
    /\ fut = "none"
    /\ snapshot \in Snapshots
    /\ outcome = NoOutcome
    /\ display = display_block("NIFTY", NoResults, "Fetching option chain data...")
    /\ fetched_symbol = ""
    /\ last_ok = Null

DataAnswered == DataReceived(snapshot)

NextProc == DataAnswered

SpecProc == InitProc /\ [][NextProc]_vars

-----------------------------------------------------------------------------
(* Properties *)

CallReturned == pc = "idle" /\ outcome.kind = "returned"

CallEnded == pc = "idle" /\ outcome.kind # "none"

Value == outcome.value[1]

Frames == outcome.frames[1]

\* the snapshot's records of the expiry the call resolves to (no expiry is passed)
ExpiryRecords ==
    {i \in 1..Len(snapshot.records.data) :
        snapshot.records.data[i].expiryDate = snapshot.records.expiryDates[1]}

SideRecords(side) == {i \in ExpiryRecords : snapshot.records.data[i][side] # Null}

WindowLow == RSub(FromInt(Value.atm_strike), RMul(FromInt(10), strike_interval))

WindowHigh == RAdd(FromInt(Value.atm_strike), RMul(FromInt(10), strike_interval))

InsideWindow(k) == RLe(WindowLow, k) /\ RLe(k, WindowHigh)

IsMultipleOf(a, num) == RDiv(a, num).d = 1

\* C1: the returned AtmStrike is a multiple of strikeInterval, is at least the
\* underlying price, and is less than one interval above it.
C1_AtmStrikeContract ==
    CallReturned =>
        /\ IsMultipleOf(FromInt(Value.atm_strike), strike_interval)
        /\ RLe(Value.underlying_price, FromInt(Value.atm_strike))
        /\ RLt(RSub(FromInt(Value.atm_strike), strike_interval), Value.underlying_price)

SideFilteredExactly(side, filtered) ==
    LET data   == snapshot.records.data
        inside == {i \in SideRecords(side) : InsideWindow(data[i].strikePrice)}
    IN  /\ Len(filtered) = Cardinality(inside)
        /\ \A i \in inside : \E j \in 1..Len(filtered) :
              /\ filtered[j].strikePrice = data[i].strikePrice
              /\ filtered[j].lastPrice = data[i][side][1].lastPrice
        /\ \A j \in 1..Len(filtered) : \E i \in inside :
              /\ filtered[j].strikePrice = data[i].strikePrice
              /\ filtered[j].lastPrice = data[i][side][1].lastPrice
        /\ \A j \in 1..(Len(filtered) - 1) :
              RLe(filtered[j].strikePrice, filtered[j + 1].strikePrice)

\* C2: in a successful run each side's filtered table holds exactly that side's
\* rows of the resolved expiry whose strike is in [Atm - 10*interval, Atm +
\* 10*interval], bounds included, in ascending strike order, and every merged
\* row's strike is in the window.
C2_WindowFilter ==
    CallReturned =>
        /\ SideFilteredExactly("CE", Frames.ce_filtered)
        /\ SideFilteredExactly("PE", Frames.pe_filtered)
        /\ \A j \in 1..Len(Value.option_chain) :
              InsideWindow(Value.option_chain[j].strikePrice)

\* a successful run that dropped a row above the window and kept one on its bound
C2_Witness ==
    /\ CallReturned
    /\ \E i \in SideRecords("CE") : ~InsideWindow(snapshot.records.data[i].strikePrice)
    /\ \E j \in 1..Len(Frames.ce_filtered) : Frames.ce_filtered[j].strikePrice = WindowHigh
    /\ \E j \in 1..Len(Frames.pe_filtered) : Frames.pe_filtered[j].strikePrice = WindowHigh

MixedSides(side) == SideRecords(side) # {} /\ SideRecords(side) # ExpiryRecords

OnlyStrikes(side, other) ==
    {snapshot.records.data[i].strikePrice : i \in SideRecords(side)}
        \ {snapshot.records.data[i].strikePrice : i \in SideRecords(other)}

RowsAt(k) == {j \in 1..Len(Value.option_chain) : Value.option_chain[j].strikePrice = k}

\* C3: when some records of the resolved expiry carry a side's sub-record and
\* others do not, the call succeeds, and a strike in the window that only has a
\* CE (PE) sub-record is one merged row with CE (PE) fields set and the other
\* side's fields null.
C3_MissingSideTolerated ==
    (CallEnded /\ (MixedSides("CE") \/ MixedSides("PE"))) =>
        /\ outcome.kind = "returned"
        /\ \A k \in OnlyStrikes("CE", "PE") : InsideWindow(k) =>
              /\ Cardinality(RowsAt(k)) = 1
              /\ \A j \in RowsAt(k) : /\ Value.option_chain[j].lastPrice_CE # Null
                                      /\ Value.option_chain[j].lastPrice_PE = Null
        /\ \A k \in OnlyStrikes("PE", "CE") : InsideWindow(k) =>
              /\ Cardinality(RowsAt(k)) = 1
              /\ \A j \in RowsAt(k) : /\ Value.option_chain[j].lastPrice_PE # Null
                                      /\ Value.option_chain[j].lastPrice_CE = Null

ExpectedWeight(row) ==
    RDiv(strike_interval,
         RAdd(strike_interval, RAbs(RSub(row.strikePrice, FromInt(Value.atm_strike)))))

WeightedAverageOf(filtered, avg) ==
    LET w  == [j \in 1..Len(filtered) |-> ExpectedWeight(filtered[j])]
        wp == [j \in 1..Len(filtered) |-> RMul(w[j], filtered[j].lastPrice)]
    IN  /\ \A j \in 1..Len(filtered) :
              /\ filtered[j].weight = w[j]
              /\ RLt(FromInt(0), filtered[j].weight)
              /\ RLe(filtered[j].weight, FromInt(1))
              /\ (filtered[j].weight = FromInt(1)) <=>
                    (filtered[j].strikePrice = FromInt(Value.atm_strike))
        /\ ~IsNaN(avg)
        /\ RMul(avg, RSum(w)) = RSum(wp)
        /\ \E j \in 1..Len(filtered) : RLe(filtered[j].lastPrice, avg)
        /\ \E j \in 1..Len(filtered) : RLe(avg, filtered[j].lastPrice)

ExampleRows ==
    << [strikePrice |-> FromInt(24100), lastPrice |-> FromInt(80)],
       [strikePrice |-> FromInt(24150), lastPrice |-> FromInt(50)] >>

Max(a, b) == IF a >= b THEN a ELSE b

SideStrikes(filtered) == {filtered[j].strikePrice : j \in 1..Len(filtered)}

\* C5: the merged chain has at least max(#CE rows, #PE rows) rows and at most
\* their sum, and a strike present in both sides is exactly one merged row,
\* also when several records share a strike.
C5_MergedRowCount ==
    CallReturned =>
        /\ Len(Value.option_chain) >= Max(Len(Frames.ce_filtered), Len(Frames.pe_filtered))
        /\ Len(Value.option_chain) <= Len(Frames.ce_filtered) + Len(Frames.pe_filtered)
        /\ \A k \in SideStrikes(Frames.ce_filtered) \cap SideStrikes(Frames.pe_filtered) :
              Cardinality(RowsAt(k)) = 1

\* C6: a call in which a side's filtered row set is empty reports a failure; it
\* never returns a result whose weighted average for that side is 0 or NaN.
C6_EmptySideFails ==
    CallReturned =>
        /\ Frames.ce_filtered # << >>
        /\ Frames.pe_filtered # << >>
        /\ ~IsNaN(Value.ce_weighted_avg)
        /\ ~IsNaN(Value.pe_weighted_avg)

AllUnset == session_state = NoResults

AllFromLastReturn ==
    /\ last_ok # Null
    /\ session_state.option_chain_df = Some(last_ok[1].option_chain)
    /\ session_state.atm_strike = Some(last_ok[1].atm_strike)
    /\ session_state.underlying_price = Some(last_ok[1].underlying_price)
    /\ session_state.ce_weighted_avg = Some(last_ok[1].ce_weighted_avg)
    /\ session_state.pe_weighted_avg = Some(last_ok[1].pe_weighted_avg)

FailedFetch == pc # "idle" /\ pc' = "idle" /\ outcome'.kind = "raised"

\* C7: the five stored fields are all unset or all those of one returned tuple
\* of process_option_chain, and a fetch that fails leaves all five as they were.
C7_StoredResultsWhole ==
    /\ [](AllUnset \/ AllFromLastReturn)
    /\ [][FailedFetch => session_state' = session_state]_vars

\* a failed fetch with the results of an earlier fetch still stored
C7_Witness ==
    /\ pc = "idle"
    /\ outcome.kind = "raised"
    /\ session_state.option_chain_df # Null
    /\ session_state.option_chain_df[1] # << >>

\* C8: when the acquisition ends because every attempt met a non-2xx answer,
\* process_option_chain fails with 'Failed to fetch data', not with the generic
\* processing failure.
C8_AcquisitionFailureSurfaced ==
    (CallEnded /\ outcome.kind = "raised" /\ outcome.cause = RetryError("HTTPError")) =>
        outcome.message = "Failed to fetch data"

C9_Inv ==
    /\ attempt_number <= stop_after_attempt_get_option_chain
    /\ cookie_attempt <= stop_after_attempt_set_cookie
    /\ (pc # "idle" /\ attempt_number > 1) => fut = "HTTPError"

\* after the data request the acquisition goes on only by a retry of an HTTPError
C9_DataStep ==
    (pc = "data" /\ pc' # "idle") =>
        /\ fut' = "HTTPError"
        /\ attempt_number' = attempt_number + 1
        /\ attempt_number < stop_after_attempt_get_option_chain
        /\ pc' = "cookie"

\* a cookie request never starts another attempt of get_option_chain
C9_CookieStep ==
    (pc = "cookie" /\ pc' # "idle") =>
        /\ attempt_number' = attempt_number
        /\ \/ pc' = "data" /\ cookie_attempt' = cookie_attempt
           \/ /\ pc' = "cookie"
              /\ cookie_attempt' = cookie_attempt + 1
              /\ cookie_attempt < stop_after_attempt_set_cookie

\* C9: one acquisition makes at most 5 attempts of the data request, a further
\* attempt follows only an attempt that failed with HTTPError, a success or any
\* other failure (timeout, the cookie bootstrap giving up after 3 tries) ends
\* it, and every acquisition ends.
C9_BoundedRetry ==
    /\ []C9_Inv
    /\ [][C9_DataStep /\ C9_CookieStep]_vars
    /\ (pc # "idle") ~> (pc = "idle")

\* the fifth attempt's data request, the four before it failed with HTTPError
C9_Witness ==
    /\ pc = "data"
    /\ attempt_number = stop_after_attempt_get_option_chain
    /\ fut = "HTTPError"

\* C10: whenever stored results are displayed, the symbol in the labels and in
\* the CSV file name is the symbol the displayed chain was fetched for.
C10_DisplayedSymbolIsFetched ==
    display.shown =>
        /\ display.symbol = fetched_symbol
        /\ display.file_name = lower(fetched_symbol) \o "_option_chain.csv"

====
